---- MODULE Spec2Model ----
(***************************************************************************)
(* The pomodoro Timer (model/timer.go, TaskManager variant) together with  *)
(* the TaskManager it reports to and the Settings it reads.  Time is an    *)
(* integer clock `now`; a time.Duration is a number of clock units and     *)
(* time.Minute is `Minute` units.                                          *)
(***************************************************************************)
EXTENDS Integers, Sequences, FiniteSets

\* ------------------------------------------------------------------ bounds
\* clock units per minute (the resolution of the model clock)
Minute == 2
\* largest focus length, in minutes, a settings value handed to SetSettings has
MaxMinutes == 2
\* the clock stops advancing here
MaxTime == 6
\* SetSettings is called at most this often
MaxSettingsCalls == 1
\* most pomodoros reported for one task in the task-store specification
MaxReports == 3
\* clock units per second of the remaining times handed to FormatTime
TicksPerSecond == 2
\* longest remaining time handed to FormatTime, in minutes
MaxFormatMinutes == 101

\* the tick message is handled at most this long after the interval is over
MaxLate == 1

\* ------------------------------------------------------------ enumerations
TimerStopped == "Stopped"
TimerRunning == "Running"
TimerPaused == "Paused"

FocusMode == "Focus"
ShortBreakMode == "ShortBreak"
LongBreakMode == "LongBreak"

DefaultPomodorosPerCycle == 4

\* the empty CurrentTaskID
NoTask == ""
\* the IDs of the tasks loaded into the TaskManager
TaskIDs == {"t1", "t2"}

\* ---------------------------------------------------------------- Settings
DefaultSettings ==
    [PomodoroDuration |-> 25, ShortBreakDuration |-> 5,
     LongBreakDuration |-> 30, AutoStartBreaks |-> FALSE]

GetPomodoroDuration(s) == s.PomodoroDuration * Minute
GetShortBreakDuration(s) == s.ShortBreakDuration * Minute
GetLongBreakDuration(s) == s.LongBreakDuration * Minute

\* the settings values handed to SetSettings
SettingsValues ==
    {[PomodoroDuration |-> p, ShortBreakDuration |-> 1,
      LongBreakDuration |-> 2, AutoStartBreaks |-> a] :
        p \in 1..MaxMinutes, a \in BOOLEAN}

\* ------------------------------------------------------------- TaskManager
NewTask(id, plannedPomodoros) ==
    [ID |-> id, Completed |-> FALSE, PlannedPomodoros |-> plannedPomodoros,
     CompletedPomodoros |-> 0, TimeSpent |-> 0]

\* index of the first task with this ID, 0 when there is none
IndexOf(ts, id) ==
    IF \E i \in 1..Len(ts) : ts[i].ID = id
    THEN CHOOSE i \in 1..Len(ts) :
            ts[i].ID = id /\ \A j \in 1..(i - 1) : ts[j].ID # id
    ELSE 0

\* mutant: the task is completed only when the count exceeds the plan
AddCompletedPomodoro_Over(ts, id) ==
    LET i == IndexOf(ts, id) IN
    IF i = 0 THEN ts
    ELSE LET c == ts[i].CompletedPomodoros + 1 IN
         [ts EXCEPT ![i].CompletedPomodoros = c,
                    ![i].Completed = IF c > ts[i].PlannedPomodoros THEN TRUE ELSE @]

AddCompletedPomodoro(ts, id) ==
    LET i == IndexOf(ts, id) IN
    IF i = 0 THEN ts
    ELSE LET c == ts[i].CompletedPomodoros + 1 IN
         [ts EXCEPT ![i].CompletedPomodoros = c,
                    ![i].Completed = IF c >= ts[i].PlannedPomodoros THEN TRUE ELSE @]

\* mutant: time reported for an ID of no task goes to the first task
AddTimeSpent_Fallback(ts, id, duration) ==
    LET i == IndexOf(ts, id) IN
    IF i = 0
    THEN IF Len(ts) = 0 THEN ts ELSE [ts EXCEPT ![1].TimeSpent = @ + duration]
    ELSE [ts EXCEPT ![i].TimeSpent = @ + duration]

AddTimeSpent(ts, id, duration) ==
    LET i == IndexOf(ts, id) IN
    IF i = 0 THEN ts ELSE [ts EXCEPT ![i].TimeSpent = @ + duration]

\* ------------------------------------------------------------------- Timer
\* A world is the timer, the TaskManager's tasks and the TaskManager calls
\* made so far by the operation in progress.
\* mutant: the new timer has no time on it
NewTimer_Unarmed ==
    [State |-> TimerStopped,
     Mode |-> FocusMode,
     Remaining |-> 0,
     StartTime |-> 0,
     Duration |-> GetPomodoroDuration(DefaultSettings),
     CompletedPomodoros |-> 0,
     PomodorosPerCycle |-> DefaultPomodorosPerCycle,
     CurrentTaskID |-> NoTask,
     Settings |-> DefaultSettings]

NewTimer ==
    [State |-> TimerStopped, Mode |-> FocusMode,
     Remaining |-> GetPomodoroDuration(DefaultSettings),
     StartTime |-> 0,
     Duration |-> GetPomodoroDuration(DefaultSettings),
     CompletedPomodoros |-> 0,
     PomodorosPerCycle |-> DefaultPomodorosPerCycle,
     CurrentTaskID |-> NoTask,
     Settings |-> DefaultSettings]

\* mutant: the duration is recomputed, the remaining time is never re-armed
updateDurationFromSettings_NoRearm(t) ==
    LET d == CASE t.Mode = FocusMode -> GetPomodoroDuration(t.Settings)
               [] t.Mode = ShortBreakMode -> GetShortBreakDuration(t.Settings)
               [] t.Mode = LongBreakMode -> GetLongBreakDuration(t.Settings)
    IN [t EXCEPT !.Duration = d]

updateDurationFromSettings(t) ==
    LET d == CASE t.Mode = FocusMode -> GetPomodoroDuration(t.Settings)
               [] t.Mode = ShortBreakMode -> GetShortBreakDuration(t.Settings)
               [] t.Mode = LongBreakMode -> GetLongBreakDuration(t.Settings)
    IN [t EXCEPT !.Duration = d,
                 !.Remaining = IF t.State = TimerStopped THEN d ELSE @]

SetSettingsT(t, settings) ==
    updateDurationFromSettings([t EXCEPT !.Settings = settings])

\* mutant: the interval restarts at the resume, the elapsed part is forgotten
ResumeT_Restart(t, n) ==
    IF t.State = TimerPaused
    THEN [t EXCEPT !.State = TimerRunning, !.StartTime = n]
    ELSE t

ResumeT(t, n) ==
    IF t.State = TimerPaused
    THEN [t EXCEPT !.State = TimerRunning,
                   !.StartTime = n + (-t.Duration + t.Remaining)]
    ELSE t

\* mutant: Start of a Paused timer begins the interval anew
StartT_Fresh(t, n) ==
    updateDurationFromSettings(
        [t EXCEPT !.State = TimerRunning, !.StartTime = n])

\* mutant: Start does not take the time of the call
StartT_KeepStartTime(t, n) ==
    IF t.State = TimerPaused
    THEN ResumeT(t, n)
    ELSE updateDurationFromSettings([t EXCEPT !.State = TimerRunning])

StartT(t, n) ==
    IF t.State = TimerPaused
    THEN ResumeT(t, n)
    ELSE updateDurationFromSettings(
            [t EXCEPT !.State = TimerRunning, !.StartTime = n])

\* the two TaskManager calls of a credit, appended to the calls of w
Report(w, id, amount) ==
    [w EXCEPT !.tasks = AddTimeSpent(AddCompletedPomodoro(@, id), id, amount),
              !.calls = @ \o << <<"AddCompletedPomodoro", id>>,
                                <<"AddTimeSpent", id, amount>> >>]

\* percentComplete >= 50, with percentComplete = float64(elapsed) /
\* float64(Duration) * 100: both conversions and the quotient 1/2 are exact
\* for the durations of the model, so the test is elapsed * 100 >= 50 * Duration
\* (a zero Duration gives +Inf or NaN; Duration is at least one minute here)
\* mutant: the threshold itself does not count
HalfDone_Strict(elapsed, duration) == elapsed * 100 > 50 * duration

HalfDone(elapsed, duration) == elapsed * 100 >= 50 * duration

\* mutant: the new interval is not armed, Remaining stays as it was
advanceTimerMode_KeepRemaining(t) ==
    CASE t.Mode = FocusMode ->
           IF t.CompletedPomodoros % t.PomodorosPerCycle = 0
           THEN [t EXCEPT !.Mode = LongBreakMode,
                          !.Duration = GetLongBreakDuration(t.Settings)]
           ELSE [t EXCEPT !.Mode = ShortBreakMode,
                          !.Duration = GetShortBreakDuration(t.Settings)]
      [] t.Mode \in {ShortBreakMode, LongBreakMode} ->
           [t EXCEPT !.Mode = FocusMode,
                     !.Duration = GetPomodoroDuration(t.Settings)]

\* mutant: the cycle test is made before the pomodoro is counted
advanceTimerMode_OffByOne(t) ==
    LET t1 ==
        CASE t.Mode = FocusMode ->
               IF (t.CompletedPomodoros + 1) % t.PomodorosPerCycle = 0
               THEN [t EXCEPT !.Mode = LongBreakMode,
                              !.Duration = GetLongBreakDuration(t.Settings)]
               ELSE [t EXCEPT !.Mode = ShortBreakMode,
                              !.Duration = GetShortBreakDuration(t.Settings)]
          [] t.Mode \in {ShortBreakMode, LongBreakMode} ->
               [t EXCEPT !.Mode = FocusMode,
                         !.Duration = GetPomodoroDuration(t.Settings)]
    IN [t1 EXCEPT !.Remaining = t1.Duration]

advanceTimerMode(t) ==
    LET t1 ==
        CASE t.Mode = FocusMode ->
               IF t.CompletedPomodoros % t.PomodorosPerCycle = 0
               THEN [t EXCEPT !.Mode = LongBreakMode,
                              !.Duration = GetLongBreakDuration(t.Settings)]
               ELSE [t EXCEPT !.Mode = ShortBreakMode,
                              !.Duration = GetShortBreakDuration(t.Settings)]
          [] t.Mode \in {ShortBreakMode, LongBreakMode} ->
               [t EXCEPT !.Mode = FocusMode,
                         !.Duration = GetPomodoroDuration(t.Settings)]
    IN [t1 EXCEPT !.Remaining = t1.Duration]

\* time.Since(start) at clock value n
Since(start, n) == n - start

\* mutant: a stopped break is credited like a focus interval
StopCredit_AnyMode(w, n) ==
    LET t == w.timer
        elapsed == Since(t.StartTime, n)
    IN IF /\ t.State = TimerRunning
          /\ HalfDone(elapsed, t.Duration)
       THEN LET wc == [w EXCEPT !.timer.CompletedPomodoros = @ + 1]
            IN IF t.CurrentTaskID # NoTask
               THEN Report(wc, t.CurrentTaskID, elapsed)
               ELSE wc
       ELSE w

\* mutant: a Paused focus interval is credited like a Running one
StopCredit_AnyState(w, n) ==
    LET t == w.timer
        elapsed == Since(t.StartTime, n)
    IN IF /\ t.Mode = FocusMode
          /\ HalfDone(elapsed, t.Duration)
       THEN LET wc == [w EXCEPT !.timer.CompletedPomodoros = @ + 1]
            IN IF t.CurrentTaskID # NoTask
               THEN Report(wc, t.CurrentTaskID, elapsed)
               ELSE wc
       ELSE w

\* Stop, the accounting of a Running focus interval
StopCredit(w, n) ==
    LET t == w.timer
        elapsed == Since(t.StartTime, n)
    IN IF /\ t.State = TimerRunning
          /\ t.Mode = FocusMode
          /\ HalfDone(elapsed, t.Duration)
       THEN LET wc == [w EXCEPT !.timer.CompletedPomodoros = @ + 1]
            IN IF t.CurrentTaskID # NoTask
               THEN Report(wc, t.CurrentTaskID, elapsed)
               ELSE wc
       ELSE w

\* mutant: stopping moves on to the next mode
StopW_Advance(w, n) ==
    LET w1 == StopCredit(w, n)
    IN [w1 EXCEPT !.timer = advanceTimerMode(
            updateDurationFromSettings([@ EXCEPT !.State = TimerStopped]))]

\* mutant: Stop keeps the interval as it was left
StopW_NoRearm(w, n) ==
    LET w1 == StopCredit(w, n)
    IN [w1 EXCEPT !.timer.State = TimerStopped]

StopW(w, n) ==
    LET w1 == StopCredit(w, n)
    IN [w1 EXCEPT !.timer =
            updateDurationFromSettings([@ EXCEPT !.State = TimerStopped])]

\* mutant: Reset stops the timer and leaves the interval as it was
ResetT_NoRearm(t) == [t EXCEPT !.State = TimerStopped]

ResetT(t) == updateDurationFromSettings([t EXCEPT !.State = TimerStopped])

\* mutant: Pause does not look at the state
PauseT_Always(t, n) ==
    LET r == t.Duration - Since(t.StartTime, n)
    IN [t EXCEPT !.State = TimerPaused,
                 !.Remaining = IF r < 0 THEN 0 ELSE r]

\* mutant: the remaining time is stored as computed, below zero too
PauseT_NoClamp(t, n) ==
    IF t.State = TimerRunning
    THEN [t EXCEPT !.State = TimerPaused,
                   !.Remaining = t.Duration - Since(t.StartTime, n)]
    ELSE t

PauseT(t, n) ==
    IF t.State = TimerRunning
    THEN LET r == t.Duration - Since(t.StartTime, n)
         IN [t EXCEPT !.State = TimerPaused,
                      !.Remaining = IF r < 0 THEN 0 ELSE r]
    ELSE t

\* mutant: an interval with nothing left has not finished yet
Finished_Strict(remaining) == remaining < 0

\* mutant: an interval with one clock unit left has finished
Finished_Early(remaining) == remaining <= 1

\* Update, the test that the interval has finished
Finished(remaining) == remaining <= 0

\* mutant: the time left, not the duration, is reported
UpdateCredit_Remaining(w) ==
    LET t == w.timer
    IN IF t.Mode = FocusMode
       THEN LET wc == [w EXCEPT !.timer.CompletedPomodoros = @ + 1]
            IN IF t.CurrentTaskID # NoTask
               THEN Report(wc, t.CurrentTaskID, t.Remaining)
               ELSE wc
       ELSE w

\* mutant: a finished break counts as a pomodoro too
UpdateCredit_AnyMode(w) ==
    LET t == w.timer
        wc == [w EXCEPT !.timer.CompletedPomodoros = @ + 1]
    IN IF t.Mode = FocusMode /\ t.CurrentTaskID # NoTask
       THEN Report(wc, t.CurrentTaskID, t.Duration)
       ELSE wc

\* Update, the accounting of a finished interval (w.timer is already Stopped)
UpdateCredit(w) ==
    LET t == w.timer
    IN IF t.Mode = FocusMode
       THEN LET wc == [w EXCEPT !.timer.CompletedPomodoros = @ + 1]
            IN IF t.CurrentTaskID # NoTask
               THEN Report(wc, t.CurrentTaskID, t.Duration)
               ELSE wc
       ELSE w

\* mutant: Update of the variant without auto-start (src/model/timer.go)
UpdateW_NoAutoStart(w, n) ==
    LET t == w.timer IN
    IF t.State # TimerRunning
    THEN [w |-> w, ret |-> FALSE]
    ELSE
      LET r == t.Duration - Since(t.StartTime, n)
      IN IF Finished(r)
         THEN
           LET w1 == UpdateCredit([w EXCEPT !.timer.Remaining = 0,
                                            !.timer.State = TimerStopped])
           IN [w |-> [w1 EXCEPT !.timer = advanceTimerMode(w1.timer)],
               ret |-> TRUE]
         ELSE [w |-> [w EXCEPT !.timer.Remaining = r], ret |-> FALSE]

\* mutant: whatever interval comes next is started at once
UpdateW_AutoStartAll(w, n) ==
    LET t == w.timer IN
    IF t.State # TimerRunning
    THEN [w |-> w, ret |-> FALSE]
    ELSE
      LET r == t.Duration - Since(t.StartTime, n)
      IN IF Finished(r)
         THEN
           LET w1 == UpdateCredit([w EXCEPT !.timer.Remaining = 0,
                                            !.timer.State = TimerStopped])
               t2 == advanceTimerMode(w1.timer)
               t3 == IF t2.Settings.AutoStartBreaks
                     THEN StartT(t2, n)
                     ELSE t2
           IN [w |-> [w1 EXCEPT !.timer = t3], ret |-> TRUE]
         ELSE [w |-> [w EXCEPT !.timer.Remaining = r], ret |-> FALSE]

\* Update: the world it leaves and the value it returns
UpdateW(w, n) ==
    LET t == w.timer IN
    IF t.State # TimerRunning
    THEN [w |-> w, ret |-> FALSE]
    ELSE
      LET r == t.Duration - Since(t.StartTime, n)
      IN IF Finished(r)
         THEN
           LET w1 == UpdateCredit([w EXCEPT !.timer.Remaining = 0,
                                            !.timer.State = TimerStopped])
               t2 == advanceTimerMode(w1.timer)
               t3 == IF /\ t2.Settings.AutoStartBreaks
                        /\ t2.Mode \in {ShortBreakMode, LongBreakMode}
                     THEN StartT(t2, n)
                     ELSE t2
           IN [w |-> [w1 EXCEPT !.timer = t3], ret |-> TRUE]
         ELSE [w |-> [w EXCEPT !.timer.Remaining = r], ret |-> FALSE]

\* mutant: the share of the interval that is left, not the share that is done
ProgressPercentage_Remaining(t) ==
    IF t.Duration <= 0
    THEN [num |-> 0, den |-> 1]
    ELSE [num |-> 100 * t.Remaining, den |-> t.Duration]

\* ProgressPercentage: 100.0 * (1.0 - float64(Remaining)/float64(Duration)),
\* kept as the exact fraction num/den with den > 0 (no clamp in the code);
\* the float64 result has the sign of num and is 100 exactly when
\* Remaining = 0, and rounding keeps the order of two values
ProgressPercentage(t) ==
    IF t.Duration <= 0
    THEN [num |-> 0, den |-> 1]
    ELSE [num |-> 100 * (t.Duration - t.Remaining), den |-> t.Duration]

\* mutant: the focus interval is started right after the break is skipped
SkipBreakW_Start(w, n) ==
    IF w.timer.Mode \in {ShortBreakMode, LongBreakMode}
    THEN LET w1 == StopW(w, n)
             t2 == updateDurationFromSettings([w1.timer EXCEPT !.Mode = FocusMode])
         IN [w1 EXCEPT !.timer = StartT(ResetT(t2), n)]
    ELSE w

SkipBreakW(w, n) ==
    IF w.timer.Mode \in {ShortBreakMode, LongBreakMode}
    THEN LET w1 == StopW(w, n)
             t2 == updateDurationFromSettings([w1.timer EXCEPT !.Mode = FocusMode])
         IN [w1 EXCEPT !.timer = ResetT(t2)]
    ELSE w

\* --------------------------------------------------------------- the state
VARIABLES
    timer,      \* the Timer's fields
    tasks,      \* TaskManager.Tasks
    now,        \* time.Now()
    nSet,       \* how often SetSettings has been called
    ret,        \* what the last operation returned: <<b>> for Update, << >> otherwise
    calls,      \* the TaskManager calls the last operation made
    resumedAt,  \* time.Now() at the last operation if it resumed a Paused timer, else -1
    cycle,      \* pomodoros credited since a long break was last entered
    settings,   \* SettingsManager.Settings
    file,       \* the JSON file of the storage
    formatArg,  \* a remaining time handed to FormatTime
    formatted   \* the text FormatTime returned for it, << >> before the call

timerVars == <<timer, tasks, now, nSet, ret, calls, resumedAt, cycle>>
storeVars == <<settings, file>>
formatVars == <<formatArg, formatted>>
vars == <<timerVars, storeVars, formatVars>>

\* the tasks LoadTasks puts into the TaskManager at start-up
LoadedTasks == <<NewTask("t1", 1), NewTask("t2", 2)>>

\* model.Settings{}: what json.Unmarshal leaves when the file has no settings
ZeroSettings ==
    [PomodoroDuration |-> 0, ShortBreakDuration |-> 0,
     LongBreakDuration |-> 0, AutoStartBreaks |-> FALSE]

\* TaskData{}
ZeroData == [Tasks |-> << >>, Settings |-> ZeroSettings]

\* json.MarshalIndent of a TaskData: the JSON object, keyed by the json tags
\* of Settings, Task and TaskData
MarshalSettings(s) ==
    [pomodoro_duration |-> s.PomodoroDuration,
     short_break_duration |-> s.ShortBreakDuration,
     long_break_duration |-> s.LongBreakDuration,
     auto_start_breaks |-> s.AutoStartBreaks]

MarshalTask(t) ==
    [id |-> t.ID, completed |-> t.Completed,
     planned_pomodoros |-> t.PlannedPomodoros,
     completed_pomodoros |-> t.CompletedPomodoros,
     time_spent |-> t.TimeSpent]

Marshal(data) ==
    [tasks |-> [i \in 1..Len(data.Tasks) |-> MarshalTask(data.Tasks[i])],
     settings |-> MarshalSettings(data.Settings)]

\* json.Unmarshal into a TaskData
UnmarshalSettings(j) ==
    [PomodoroDuration |-> j.pomodoro_duration,
     ShortBreakDuration |-> j.short_break_duration,
     LongBreakDuration |-> j.long_break_duration,
     AutoStartBreaks |-> j.auto_start_breaks]

UnmarshalTask(j) ==
    [ID |-> j.id, Completed |-> j.completed,
     PlannedPomodoros |-> j.planned_pomodoros,
     CompletedPomodoros |-> j.completed_pomodoros,
     TimeSpent |-> j.time_spent]

Unmarshal(doc) ==
    [Tasks |-> [i \in 1..Len(doc.tasks) |-> UnmarshalTask(doc.tasks[i])],
     Settings |-> UnmarshalSettings(doc.settings)]

\* the file does not exist (data is not looked at)
NoFile == [kind |-> "absent", data |-> Marshal(ZeroData)]

\* the file exists and cannot be read or parsed (data is not looked at)
Unreadable == [kind |-> "unreadable", data |-> Marshal(ZeroData)]

\* writeData: the file holds the JSON text of a TaskData
FileOf(data) == [kind |-> "json", data |-> Marshal(data)]

TimerInit ==
    /\ timer = NewTimer
    /\ tasks = LoadedTasks
    /\ now = 0
    /\ nSet = 0
    /\ ret = << >>
    /\ calls = << >>
    /\ resumedAt = -1
    /\ cycle = 0

StoreInit == settings = DefaultSettings /\ file = NoFile

FormatInit == formatArg = 0 /\ formatted = << >>

Init == TimerInit /\ StoreInit /\ FormatInit

World == [timer |-> timer, tasks |-> tasks, calls |-> << >>]

\* a call that leaves world w and returns r; resumed: it resumed a Paused timer
Called(w, r, resumed) ==
    /\ timer' = w.timer
    /\ tasks' = w.tasks
    /\ calls' = w.calls
    /\ ret' = r
    /\ resumedAt' = IF resumed THEN now ELSE -1
    /\ now' = now
    /\ cycle' = IF w.timer.Mode = LongBreakMode /\ timer.Mode # LongBreakMode
                THEN 0
                ELSE cycle + (w.timer.CompletedPomodoros - timer.CompletedPomodoros)
    /\ UNCHANGED <<storeVars, formatVars>>

\* ------------------------------------------------ settings store, storage
\* readData: the TaskData of the file, or an error
readData(f) ==
    CASE f.kind = "absent" ->
           [err |-> FALSE,
            data |-> [Tasks |-> << >>, Settings |-> DefaultSettings]]
      [] f.kind = "unreadable" -> [err |-> TRUE, data |-> ZeroData]
      [] f.kind = "json" -> [err |-> FALSE, data |-> Unmarshal(f.data)]

\* JSONTaskStorage.LoadSettings
JSONLoadSettings(f) ==
    LET r == readData(f)
    IN IF r.err THEN DefaultSettings
       ELSE IF r.data.Settings = ZeroSettings THEN DefaultSettings
       ELSE r.data.Settings

\* JSONTaskStorage.SaveSettings: the file it writes
JSONSaveSettings(f, s) ==
    LET r == readData(f)
        existingData == IF r.err THEN ZeroData ELSE r.data
    IN FileOf([existingData EXCEPT !.Settings = s])

\* mutant: Save writes the default settings next to the tasks
JSONSave_DefaultSettings(f, isNil, ts) ==
    IF isNil
    THEN [err |-> TRUE, file |-> f]
    ELSE [err |-> FALSE,
          file |-> FileOf([Tasks |-> ts, Settings |-> DefaultSettings])]

\* JSONTaskStorage.Save of the task slice ts (isNil: the slice is nil): the
\* error it returns and the file it leaves
JSONSave(f, isNil, ts) ==
    IF isNil
    THEN [err |-> TRUE, file |-> f]
    ELSE LET r == readData(f)
             existingData ==
                 IF r.err
                 THEN [Tasks |-> << >>, Settings |-> DefaultSettings]
                 ELSE r.data
         IN [err |-> FALSE, file |-> FileOf([existingData EXCEPT !.Tasks = ts])]

\* JSONTaskStorage.Load
JSONLoad(f) ==
    LET r == readData(f)
    IN IF r.err THEN << >> ELSE r.data.Tasks

\* the setters' lower limit
AtLeastOne(minutes) == IF minutes < 1 THEN 1 ELSE minutes

\* arguments of the setters
MinutesArgs == -1..MaxMinutes

\* settings found in a file the program did not write itself
StoredSettings ==
    {[PomodoroDuration |-> p, ShortBreakDuration |-> sb,
      LongBreakDuration |-> l, AutoStartBreaks |-> a] :
        p \in 0..1, sb \in 0..1, l \in 0..1, a \in BOOLEAN}

\* the file at start-up
StoredFiles ==
    {NoFile, Unreadable} \cup
    {FileOf([Tasks |-> << >>, Settings |-> st]) : st \in StoredSettings}

SettingsInit == TimerInit /\ FormatInit /\ settings = DefaultSettings /\ file \in StoredFiles

SetPomodoroDuration ==
    \E minutes \in MinutesArgs :
        /\ settings' = [settings EXCEPT !.PomodoroDuration = AtLeastOne(minutes)]
        /\ UNCHANGED <<file, timerVars, formatVars>>

SetShortBreakDuration ==
    \E minutes \in MinutesArgs :
        /\ settings' = [settings EXCEPT !.ShortBreakDuration = AtLeastOne(minutes)]
        /\ UNCHANGED <<file, timerVars, formatVars>>

SetLongBreakDuration ==
    \E minutes \in MinutesArgs :
        /\ settings' = [settings EXCEPT !.LongBreakDuration = AtLeastOne(minutes)]
        /\ UNCHANGED <<file, timerVars, formatVars>>

\* StorageManager.LoadSettings
LoadSettings ==
    /\ settings' = JSONLoadSettings(file)
    /\ UNCHANGED <<file, timerVars, formatVars>>

\* StorageManager.SaveSettings
SaveSettings ==
    /\ file' = JSONSaveSettings(file, settings)
    /\ UNCHANGED <<settings, timerVars, formatVars>>

SettingsNext ==
    \/ SetPomodoroDuration
    \/ SetShortBreakDuration
    \/ SetLongBreakDuration
    \/ LoadSettings
    \/ SaveSettings

SettingsSpec == SettingsInit /\ [][SettingsNext]_vars

\* ------------------------------------------------------------- FormatTime
DigitChars == <<"0", "1", "2", "3", "4", "5", "6", "7", "8", "9">>

\* the decimal digits of n >= 0, as %d prints them
RECURSIVE Itoa(_)
Itoa(n) ==
    IF n < 10
    THEN <<DigitChars[n + 1]>>
    ELSE Itoa(n \div 10) \o <<DigitChars[(n % 10) + 1]>>

\* fmt's %02d for n >= 0: at least two digits, padded with zeros
Pad2(n) == LET d == Itoa(n) IN IF Len(d) < 2 THEN <<"0">> \o d ELSE d

\* mutant: the seconds are not reduced modulo 60
FormatTime_AllSeconds(remaining) ==
    LET minutes == remaining \div (60 * TicksPerSecond)
        seconds == remaining \div TicksPerSecond
    IN Pad2(minutes) \o <<":">> \o Pad2(seconds)

\* FormatTime for a Remaining >= 0 of so many ticks: int(Remaining.Minutes())
\* and int(Remaining.Seconds()) cut the fraction off
FormatTime(remaining) ==
    LET minutes == remaining \div (60 * TicksPerSecond)
        seconds == (remaining \div TicksPerSecond) % 60
    IN Pad2(minutes) \o <<":">> \o Pad2(seconds)

FormatSpecInit ==
    /\ TimerInit
    /\ StoreInit
    /\ formatArg \in 0..(MaxFormatMinutes * 60 * TicksPerSecond)
    /\ formatted = << >>

\* a call of FormatTime on a timer with Remaining = formatArg
FormatTimeCall ==
    /\ formatted' = FormatTime(formatArg)
    /\ UNCHANGED <<formatArg, timerVars, storeVars>>

FormatSpec == FormatSpecInit /\ [][FormatTimeCall]_vars

\* ------------------------------------------------------------- task store
\* the IDs a caller may report for: those of the tasks and one of no task
ReportedIDs == TaskIDs \cup {"t9"}

\* a call of TaskManager.AddCompletedPomodoro
TaskAddCompletedPomodoro ==
    \E id \in ReportedIDs :
        /\ \A i \in 1..Len(tasks) : tasks[i].CompletedPomodoros < MaxReports
        /\ tasks' = AddCompletedPomodoro(tasks, id)
        /\ calls' = << <<"AddCompletedPomodoro", id>> >>
        /\ UNCHANGED <<timer, now, nSet, ret, resumedAt, cycle, storeVars, formatVars>>

\* a call of TaskManager.AddTimeSpent
TaskAddTimeSpent ==
    \E id \in ReportedIDs, duration \in 1..Minute :
        /\ \A i \in 1..Len(tasks) : tasks[i].TimeSpent + duration <= MaxTime
        /\ tasks' = AddTimeSpent(tasks, id, duration)
        /\ calls' = << <<"AddTimeSpent", id, duration>> >>
        /\ UNCHANGED <<timer, now, nSet, ret, resumedAt, cycle, storeVars, formatVars>>

TaskNext == TaskAddCompletedPomodoro \/ TaskAddTimeSpent

TaskSpec == Init /\ [][TaskNext]_vars

\* ---------------------------------------------- storage of tasks and settings
\* the file at start-up: none, an unreadable one, one of the old format with
\* no settings and no tasks, and those an earlier run wrote
StorageFiles ==
    {NoFile, Unreadable, FileOf(ZeroData)} \cup
    {FileOf([Tasks |-> LoadedTasks, Settings |-> s]) : s \in SettingsValues}

StorageInit ==
    /\ TimerInit
    /\ FormatInit
    /\ settings = DefaultSettings
    /\ file \in StorageFiles

\* StorageManager.LoadTasks
LoadTasks ==
    /\ tasks' = JSONLoad(file)
    /\ ret' = << >>
    /\ UNCHANGED <<timer, now, nSet, calls, resumedAt, cycle, storeVars, formatVars>>

\* StorageManager.SaveTasks; ret is the error Save returned
SaveTasks ==
    \E r \in {JSONSave(file, FALSE, tasks)} :
        /\ file' = r.file
        /\ ret' = <<r.err>>
        /\ UNCHANGED <<timer, tasks, now, nSet, calls, resumedAt, cycle, settings, formatVars>>

\* JSONTaskStorage.Save(nil); ret is the error Save returned
SaveNil ==
    \E r \in {JSONSave(file, TRUE, << >>)} :
        /\ file' = r.file
        /\ ret' = <<r.err>>
        /\ UNCHANGED <<timer, tasks, now, nSet, calls, resumedAt, cycle, settings, formatVars>>

StorageNext ==
    \/ TaskAddCompletedPomodoro
    \/ SetPomodoroDuration
    \/ LoadTasks
    \/ SaveTasks
    \/ SaveNil
    \/ LoadSettings
    \/ SaveSettings

StorageSpec == StorageInit /\ [][StorageNext]_vars

\* ------------------------------------------------------------------ timer
\* time passes
Tick ==
    /\ now < MaxTime
    /\ now' = now + 1
    /\ UNCHANGED <<timer, tasks, nSet, ret, calls, resumedAt, cycle>>
    /\ UNCHANGED <<storeVars, formatVars>>

SetSettings ==
    \E s \in SettingsValues :
        /\ nSet < MaxSettingsCalls
        /\ nSet' = nSet + 1
        /\ Called([World EXCEPT !.timer = SetSettingsT(timer, s)], << >>, FALSE)

\* mutant: selecting a task also re-arms the timer
SetCurrentTask_Reset ==
    \E id \in TaskIDs \cup {NoTask} :
        /\ Called([World EXCEPT !.timer = ResetT([timer EXCEPT !.CurrentTaskID = id])],
                  << >>, FALSE)
        /\ UNCHANGED nSet

SetCurrentTask ==
    \E id \in TaskIDs \cup {NoTask} :
        /\ Called([World EXCEPT !.timer.CurrentTaskID = id], << >>, FALSE)
        /\ UNCHANGED nSet

Start ==
    /\ Called([World EXCEPT !.timer = StartT(timer, now)], << >>,
              timer.State = TimerPaused)
    /\ UNCHANGED nSet

Stop ==
    /\ Called(StopW(World, now), << >>, FALSE)
    /\ UNCHANGED nSet

Reset ==
    /\ Called([World EXCEPT !.timer = ResetT(timer)], << >>, FALSE)
    /\ UNCHANGED nSet

Pause ==
    /\ Called([World EXCEPT !.timer = PauseT(timer, now)], << >>, FALSE)
    /\ UNCHANGED nSet

Resume ==
    /\ Called([World EXCEPT !.timer = ResumeT(timer, now)], << >>,
              timer.State = TimerPaused)
    /\ UNCHANGED nSet

\* (u is bound by a quantifier over the one result so that it is computed once)
Update ==
    \E u \in {UpdateW(World, now)} :
        /\ Called(u.w, <<u.ret>>, FALSE)
        /\ UNCHANGED nSet

SkipBreak ==
    /\ Called(SkipBreakW(World, now), << >>, FALSE)
    /\ UNCHANGED nSet

Next ==
    \/ Tick
    \/ SetSettings
    \/ SetCurrentTask
    \/ Start
    \/ Stop
    \/ Reset
    \/ Pause
    \/ Resume
    \/ Update
    \/ SkipBreak

Spec == Init /\ [][Next]_vars

\* ---------------------------------------- timer without a task in the store
\* SetCurrentTask with the empty ID or the ID of a task the TaskManager does
\* not hold
SetCurrentTaskMissing ==
    \E id \in (ReportedIDs \ TaskIDs) \cup {NoTask} :
        /\ Called([World EXCEPT !.timer.CurrentTaskID = id], << >>, FALSE)
        /\ UNCHANGED nSet

MissingTaskNext ==
    \/ Tick
    \/ SetSettings
    \/ SetCurrentTaskMissing
    \/ Start
    \/ Stop
    \/ Pause
    \/ Resume
    \/ Update

MissingTaskSpec == Init /\ [][MissingTaskNext]_vars

\* ------------------- the timer that holds its task by value (model/timer.go)
\* Task.AddCompletedPomodoro, Task.AddTimeSpent: the task after the call
TaskAddCompleted(task) ==
    LET c == task.CompletedPomodoros + 1 IN
    [task EXCEPT !.CompletedPomodoros = c,
                 !.Completed = IF c >= task.PlannedPomodoros THEN TRUE ELSE @]

TaskAddTime(task, duration) == [task EXCEPT !.TimeSpent = @ + duration]

\* CurrentTask is << >> for nil and <<task>> for a pointer to the timer's own
\* copy of the task
ValueNewTimer ==
    [State |-> TimerStopped, Mode |-> FocusMode,
     Remaining |-> GetPomodoroDuration(DefaultSettings),
     StartTime |-> 0,
     Duration |-> GetPomodoroDuration(DefaultSettings),
     CompletedPomodoros |-> 0,
     PomodorosPerCycle |-> DefaultPomodorosPerCycle,
     CurrentTask |-> << >>,
     Settings |-> DefaultSettings]

ValueInit ==
    /\ timer = ValueNewTimer
    /\ tasks = LoadedTasks
    /\ now = 0
    /\ nSet = 0
    /\ ret = << >>
    /\ calls = << >>
    /\ resumedAt = -1
    /\ cycle = 0
    /\ StoreInit
    /\ FormatInit

\* Update of this timer: the timer it leaves and the value it returns
ValueUpdateT(t, n) ==
    IF t.State # TimerRunning
    THEN [timer |-> t, ret |-> FALSE]
    ELSE
      LET r == t.Duration - Since(t.StartTime, n)
      IN IF Finished(r)
         THEN
           LET t1 == [t EXCEPT !.Remaining = 0, !.State = TimerStopped]
               t2 == IF t1.Mode = FocusMode
                     THEN [t1 EXCEPT
                            !.CompletedPomodoros = @ + 1,
                            !.CurrentTask =
                                IF @ = << >> THEN @
                                ELSE <<TaskAddTime(TaskAddCompleted(@[1]),
                                                   t1.Duration)>>]
                     ELSE t1
           IN [timer |-> advanceTimerMode(t2), ret |-> TRUE]
         ELSE [timer |-> [t EXCEPT !.Remaining = r], ret |-> FALSE]

\* Enter in the main view: SetCurrentTask(*selectedTaskPtr) with a task of the
\* TaskManager; the parameter is a copy and the timer keeps its address
ValueSetCurrentTask ==
    \E i \in 1..Len(tasks) :
        /\ Called([World EXCEPT !.timer.CurrentTask = <<tasks[i]>>], << >>, FALSE)
        /\ UNCHANGED nSet

ValueUpdate ==
    \E u \in {ValueUpdateT(timer, now)} :
        /\ Called([World EXCEPT !.timer = u.timer], <<u.ret>>, FALSE)
        /\ UNCHANGED nSet

\* Stop of this timer has no accounting: it is what Reset does
ValueStop ==
    /\ Called([World EXCEPT !.timer = ResetT(timer)], << >>, FALSE)
    /\ UNCHANGED nSet

ValueNext ==
    \/ Tick
    \/ SetSettings
    \/ ValueSetCurrentTask
    \/ Start
    \/ ValueStop
    \/ Pause
    \/ Resume
    \/ ValueUpdate

ValueSpec == ValueInit /\ [][ValueNext]_vars

\* ------------------------------ the application: settings wired to the timer
\* the file the application finds: the tasks and settings of an earlier run
AppFiles ==
    {FileOf([Tasks |-> LoadedTasks, Settings |-> s]) : s \in SettingsValues}

\* NewApp: the tasks and the settings are loaded, the timer gets the loaded
\* settings and is reset
AppInit ==
    /\ file \in AppFiles
    /\ settings = JSONLoadSettings(file)
    /\ timer = ResetT(SetSettingsT(NewTimer, settings))
    /\ tasks = JSONLoad(file)
    /\ now = 0
    /\ nSet = 0
    /\ ret = << >>
    /\ calls = << >>
    /\ resumedAt = -1
    /\ cycle = 0
    /\ FormatInit

\* the change handler NewApp registers: the timer with settings s after it
OnChange(t, s) == ResetT(SetSettingsT(t, s))

\* a setter has stored s; notifyChange runs the handler, which also saves
notifyChange(s) ==
    /\ settings' = s
    /\ timer' = OnChange(timer, s)
    /\ file' = JSONSaveSettings(file, s)
    /\ ret' = << >>
    /\ calls' = << >>
    /\ resumedAt' = -1
    /\ UNCHANGED <<tasks, now, cycle, formatVars>>

\* the setters of the SettingsManager with the handler registered
AppSetPomodoroDuration ==
    \E minutes \in MinutesArgs :
        /\ notifyChange([settings EXCEPT !.PomodoroDuration = AtLeastOne(minutes)])
        /\ UNCHANGED nSet

AppSetShortBreakDuration ==
    \E minutes \in MinutesArgs :
        /\ notifyChange([settings EXCEPT !.ShortBreakDuration = AtLeastOne(minutes)])
        /\ UNCHANGED nSet

AppSetLongBreakDuration ==
    \E minutes \in MinutesArgs :
        /\ notifyChange([settings EXCEPT !.LongBreakDuration = AtLeastOne(minutes)])
        /\ UNCHANGED nSet

AppNext ==
    \/ Tick
    \/ Start
    \/ Pause
    \/ Resume
    \/ Update
    \/ AppSetPomodoroDuration
    \/ AppSetShortBreakDuration
    \/ AppSetLongBreakDuration

AppSpec == AppInit /\ [][AppNext]_vars

\* ----------------------------------------- a Running timer left to its ticks
\* the timer after Start() at time 0: the first and the last focus interval
\* of a cycle, the short break after the first and the long break after the
\* last
RunningTimers ==
    UNION {
        {[NewTimer EXCEPT !.State = TimerRunning,
                          !.Mode = x[1],
                          !.Settings = s,
                          !.Duration = x[2],
                          !.Remaining = x[2],
                          !.CompletedPomodoros = x[3],
                          !.CurrentTaskID = id] :
            id \in {"t1", NoTask},
            x \in {<<FocusMode, GetPomodoroDuration(s), c>> :
                      c \in {0, DefaultPomodorosPerCycle - 1}}
                  \cup {<<ShortBreakMode, GetShortBreakDuration(s), 1>>,
                        <<LongBreakMode, GetLongBreakDuration(s),
                          DefaultPomodorosPerCycle>>}} :
        s \in SettingsValues}

LiveInit ==
    /\ timer \in RunningTimers
    /\ tasks = LoadedTasks
    /\ now = 0
    /\ nSet = 0
    /\ ret = << >>
    /\ calls = << >>
    /\ resumedAt = -1
    /\ cycle = timer.CompletedPomodoros % DefaultPomodorosPerCycle
    /\ StoreInit
    /\ FormatInit

\* the clock reaches the end of the longest focus interval followed by the
\* long break, each handled MaxLate late, and is not followed further
Horizon == (MaxMinutes + 2) * Minute + 2 * MaxLate

\* time passes while the timer runs; the tick message comes every second, so
\* an interval is never over for longer than MaxLate when Update is called
TickRunning ==
    /\ timer.State = TimerRunning
    /\ now - timer.StartTime < timer.Duration + MaxLate
    /\ now < Horizon
    /\ now' = now + 1
    /\ UNCHANGED <<timer, tasks, nSet, ret, calls, resumedAt, cycle>>
    /\ UNCHANGED <<storeVars, formatVars>>

LiveNext == TickRunning \/ Update

\* the clock advances and the tick message re-arms itself (tea.Tick)
LiveSpec ==
    /\ LiveInit
    /\ [][LiveNext]_vars
    /\ WF_vars(TickRunning)
    /\ WF_vars(Update)

\* ------------------------------------------------------------------ claims
Breaks == {ShortBreakMode, LongBreakMode}

\* the record of task id in a task list
TaskOf(ts, id) == ts[CHOOSE i \in 1..Len(ts) : ts[i].ID = id]

\* task id gained exactly one pomodoro and amount of time, no other task changed
CreditedOnce(id, amount) ==
    /\ Len(tasks') = Len(tasks)
    /\ \A i \in 1..Len(tasks) :
          IF tasks[i].ID = id
          THEN /\ tasks'[i].CompletedPomodoros = tasks[i].CompletedPomodoros + 1
               /\ tasks'[i].TimeSpent = tasks[i].TimeSpent + amount
               /\ tasks'[i].ID = id
               /\ tasks'[i].PlannedPomodoros = tasks[i].PlannedPomodoros
          ELSE tasks'[i] = tasks[i]
    /\ calls' = << <<"AddCompletedPomodoro", id>>, <<"AddTimeSpent", id, amount>> >>

NoReport == calls' = << >> /\ tasks' = tasks

\* an Update() call that returned true, one that returned false
UpdateTrue == Update /\ ret' = <<TRUE>>
UpdateFalse == Update /\ ret' = <<FALSE>>

\* C1: an Update() that completes a Focus interval goes to LongBreak when the
\* incremented completedPomodoros is a multiple of pomodorosPerCycle and to
\* ShortBreak otherwise; one that completes a break goes to Focus.  With 4 per
\* cycle the breaks after the first four focus intervals are Short, Short,
\* Short, Long.
C1_BreakRouting ==
    [][UpdateTrue =>
        /\ timer.Mode = FocusMode =>
              timer'.Mode = IF timer'.CompletedPomodoros % timer.PomodorosPerCycle = 0
                            THEN LongBreakMode ELSE ShortBreakMode
        /\ timer.Mode \in Breaks => timer'.Mode = FocusMode
        /\ (timer.Mode = FocusMode /\ timer.PomodorosPerCycle = 4
                /\ timer.CompletedPomodoros < 4) =>
              timer'.Mode = IF timer.CompletedPomodoros = 3
                            THEN LongBreakMode ELSE ShortBreakMode]_vars

\* the fourth focus interval has just completed and led to the long break
C1_Witness ==
    /\ ret = <<TRUE>>
    /\ timer.Mode = LongBreakMode
    /\ timer.CompletedPomodoros = 4

\* C2: Stop() of a Running Focus interval credits a pomodoro iff at least half
\* of duration has elapsed: then completedPomodoros grows by 1 and a selected
\* task gets one pomodoro and the measured elapsed time; otherwise nothing is
\* credited.  Either way the timer ends Stopped in Focus mode.
C2_StopCredit ==
    [][(Stop /\ timer.State = TimerRunning /\ timer.Mode = FocusMode) =>
        LET elapsed == now - timer.StartTime IN
        /\ timer'.State = TimerStopped
        /\ timer'.Mode = FocusMode
        /\ IF 2 * elapsed >= timer.Duration
           THEN /\ timer'.CompletedPomodoros = timer.CompletedPomodoros + 1
                /\ IF timer.CurrentTaskID # NoTask
                   THEN CreditedOnce(timer.CurrentTaskID, elapsed)
                   ELSE NoReport
           ELSE /\ timer'.CompletedPomodoros = timer.CompletedPomodoros
                /\ NoReport]_vars

\* a Stop() at exactly half of the interval has just credited the selected task
C2_Witness ==
    /\ ret = << >>
    /\ Len(calls) = 2
    /\ 2 * calls[2][3] = timer.Duration
    /\ timer.State = TimerStopped
    /\ timer.Mode = FocusMode
    /\ timer.CompletedPomodoros = 1
    /\ TaskOf(tasks, timer.CurrentTaskID).CompletedPomodoros = 1

\* C3: with task T selected, an Update() that completes a Focus interval
\* reports one pomodoro and the full duration (not the elapsed time) for T,
\* changes no other task, and an Update() that returns false reports nothing.
C3_CompletionCredit ==
    [][/\ (UpdateTrue /\ timer.Mode = FocusMode /\ timer.CurrentTaskID \in TaskIDs) =>
              CreditedOnce(timer.CurrentTaskID, timer.Duration)
       /\ UpdateFalse => NoReport
       /\ (UpdateTrue /\ timer.Mode \in Breaks) => NoReport]_vars

\* a late tick has just completed a focus interval: more than the duration had
\* elapsed and the duration was credited to the selected task
C3_Witness ==
    /\ ret = <<TRUE>>
    /\ Len(calls) = 2
    /\ timer.State = TimerStopped
    /\ now - timer.StartTime > calls[2][3]
    /\ TaskOf(tasks, timer.CurrentTaskID).TimeSpent = calls[2][3]

\* C4: after every operation 0 <= remaining <= duration.
C4_RemainingInRange ==
    /\ 0 <= timer.Remaining
    /\ timer.Remaining <= timer.Duration

\* C5: SetSettings on a Running or Paused timer changes neither remaining nor
\* duration.
C5_SettingsKeepInterval ==
    [][(SetSettings /\ timer.State \in {TimerRunning, TimerPaused}) =>
        /\ timer'.Remaining = timer.Remaining
        /\ timer'.Duration = timer.Duration]_vars

\* the length the settings of t configure for its mode
ConfiguredLength(t) ==
    Minute * (CASE t.Mode = FocusMode -> t.Settings.PomodoroDuration
                [] t.Mode = ShortBreakMode -> t.Settings.ShortBreakDuration
                [] t.Mode = LongBreakMode -> t.Settings.LongBreakDuration)

\* the time elapsed of the interval, and whether it is a Running one that is over
Elapsed == now - timer.StartTime
Due == timer.State = TimerRunning /\ Elapsed >= timer.Duration

\* C6: Update() on a Running Focus interval whose elapsed time has reached the
\* duration returns true, adds exactly 1 to completedPomodoros, enters a break
\* and sets duration and remaining to the configured length of that break; the
\* first completion gives ShortBreak with completedPomodoros 1.
C6_FocusCompletion ==
    [][(Update /\ Due /\ timer.Mode = FocusMode) =>
        /\ ret' = <<TRUE>>
        /\ timer'.CompletedPomodoros = timer.CompletedPomodoros + 1
        /\ timer'.Mode \in Breaks
        /\ timer'.Duration = ConfiguredLength(timer')
        /\ timer'.Remaining = ConfiguredLength(timer')
        /\ timer.CompletedPomodoros = 0 =>
              /\ timer'.Mode = ShortBreakMode
              /\ timer'.Remaining = Minute * timer.Settings.ShortBreakDuration
              /\ timer'.CompletedPomodoros = 1]_vars

\* the first focus interval has just completed
C6_Witness ==
    /\ ret = <<TRUE>>
    /\ timer.Mode = ShortBreakMode
    /\ timer.CompletedPomodoros = 1
    /\ timer.State = TimerStopped
    /\ timer.Remaining = Minute * timer.Settings.ShortBreakDuration
    /\ timer.Duration = timer.Remaining

\* C7 as stated: Update() returns true exactly when the Running interval is
\* over, and the timer is Stopped after the call that returned true (so that
\* no further Update() returns true for the interval).
C7_Original ==
    [][Update =>
        /\ ret' = <<TRUE>> <=> Due
        /\ ret' = <<TRUE>> => timer'.State = TimerStopped]_vars

\* C7 amended: Update() returns true exactly when the Running interval is over;
\* after that call the timer is Stopped, except that a Focus completion with
\* autoStartBreaks leaves it Running in the break with no time elapsed yet.
\* Either way the next Update() returns false until an interval is over again.
C7_CompletesOnce ==
    [][Update =>
        /\ ret' = <<TRUE>> <=> Due
        /\ ret' = <<TRUE>> =>
              IF timer.Mode = FocusMode /\ timer.Settings.AutoStartBreaks
              THEN /\ timer'.State = TimerRunning
                   /\ timer'.Mode \in Breaks
                   /\ timer'.StartTime = now
                   /\ timer'.Duration > 0
              ELSE timer'.State = TimerStopped]_vars

\* a focus interval has just completed and the break was started automatically
C7_Witness ==
    /\ ret = <<TRUE>>
    /\ timer.State = TimerRunning
    /\ timer.Mode \in Breaks
    /\ timer.StartTime = now

\* C8: an Update() on a Running timer whose elapsed time is below the duration
\* returns false, leaves the timer Running, changes neither mode, duration nor
\* completedPomodoros and makes no TaskManager call.
C8_UpdateInFlight ==
    [][(Update /\ timer.State = TimerRunning /\ Elapsed < timer.Duration) =>
        /\ ret' = <<FALSE>>
        /\ timer'.State = TimerRunning
        /\ timer'.Mode = timer.Mode
        /\ timer'.Duration = timer.Duration
        /\ timer'.CompletedPomodoros = timer.CompletedPomodoros
        /\ NoReport]_vars

\* an Update() has just returned false in the middle of a Running interval
C8_Witness ==
    /\ ret = <<FALSE>>
    /\ timer.State = TimerRunning
    /\ Elapsed > 0
    /\ Elapsed < timer.Duration
    /\ timer.Remaining = timer.Duration - Elapsed

\* a step that resumes a Paused timer (Resume, or Start delegating to it)
Resumes == (Resume \/ Start) /\ timer.State = TimerPaused

\* right after Resume the remaining stored by Pause is duration - (now - startTime)
ResumeKeepsRemaining ==
    Resumes =>
        /\ timer'.State = TimerRunning
        /\ timer'.Remaining = timer.Remaining
        /\ timer'.Duration - (now - timer'.StartTime) = timer.Remaining

\* C9 as stated: Resume keeps the remaining stored by Pause, and the first
\* Update() after it yields that remaining less the time since the Resume.
C9_Original ==
    [][/\ ResumeKeepsRemaining
       /\ (Update /\ resumedAt # -1) =>
              timer'.Remaining = timer.Remaining - (now - resumedAt)]_vars

\* C9 amended: Resume keeps the remaining stored by Pause, and the first
\* Update() after it yields that remaining less the time since the Resume as
\* long as that is positive; otherwise that Update() completes the interval
\* and remaining is the length of the next interval.
C9_PauseResume ==
    [][/\ ResumeKeepsRemaining
       /\ (Update /\ resumedAt # -1) =>
              IF now - resumedAt < timer.Remaining
              THEN /\ ret' = <<FALSE>>
                   /\ timer'.Remaining = timer.Remaining - (now - resumedAt)
              ELSE /\ ret' = <<TRUE>>
                   /\ timer'.Remaining = ConfiguredLength(timer')]_vars

\* a timer paused in mid-interval was resumed and time has passed since
C9_Witness ==
    /\ resumedAt # -1
    /\ now > resumedAt
    /\ timer.State = TimerRunning
    /\ timer.Remaining < timer.Duration
    /\ now - resumedAt < timer.Remaining
    /\ timer.Duration - Elapsed = timer.Remaining - (now - resumedAt)

\* C10: mode changes only in an Update() that returns true and in a SkipBreak()
\* called in a break mode; Start, Stop, Reset, Pause, Resume, SetSettings,
\* SetCurrentTask and an Update() that returns false never change it.
C10_ModeChanges ==
    [][/\ timer'.Mode # timer.Mode =>
              \/ UpdateTrue
              \/ SkipBreak /\ timer.Mode \in Breaks
       /\ (\/ Start \/ Stop \/ Reset \/ Pause \/ Resume
           \/ SetSettings \/ SetCurrentTask \/ UpdateFalse) =>
              timer'.Mode = timer.Mode]_vars

\* a break was stopped after it had run for a while and the mode is still the break
C10_Witness ==
    /\ timer.Mode \in Breaks
    /\ timer.State = TimerStopped
    /\ ret = << >>
    /\ Elapsed > 0
    /\ timer.StartTime > 0

\* C11: SkipBreak in ShortBreak or LongBreak mode, from Running, Paused or
\* Stopped and after any elapsed break time, ends in Focus, Stopped, with
\* remaining = duration = the configured focus length, the same
\* completedPomodoros and no Task Store call; a Stopped timer in Focus mode
\* leaves Stopped only by Start.
C11_SkipBreak ==
    [][ /\ (SkipBreak /\ timer.Mode \in Breaks) =>
            /\ timer'.Mode = FocusMode
            /\ timer'.State = TimerStopped
            /\ timer'.Duration = GetPomodoroDuration(timer.Settings)
            /\ timer'.Remaining = timer'.Duration
            /\ timer'.CompletedPomodoros = timer.CompletedPomodoros
            /\ timer'.CurrentTaskID = timer.CurrentTaskID
            /\ NoReport
        /\ ( /\ timer.State = TimerStopped
             /\ timer.Mode = FocusMode
             /\ timer'.State # TimerStopped ) => Start
      ]_vars

\* a SkipBreak step that leaves a Running long break, part of which has
\* elapsed, for a Stopped focus interval
C11_Witness ==
    ENABLED ( /\ SkipBreak
              /\ timer.Mode = LongBreakMode
              /\ timer.State = TimerRunning
              /\ Elapsed > 0
              /\ Elapsed < timer.Duration
              /\ timer'.Mode = FocusMode
              /\ timer'.State = TimerStopped
              /\ timer'.Remaining = GetPomodoroDuration(timer.Settings) )

\* C12: the Update that completes a Focus interval returns true and, when
\* autoStartBreaks is set, leaves the timer Running in the new break mode with
\* startTime = now and remaining = duration = the configured break length;
\* when autoStartBreaks is not set it leaves the timer Stopped.
C12_AutoStartBreaks ==
    [][ (Update /\ Due /\ timer.Mode = FocusMode) =>
            /\ ret' = <<TRUE>>
            /\ timer'.Mode \in Breaks
            /\ IF timer.Settings.AutoStartBreaks
               THEN /\ timer'.State = TimerRunning
                    /\ timer'.StartTime = now
                    /\ timer'.Duration = ConfiguredLength(timer')
                    /\ timer'.Remaining = timer'.Duration
               ELSE timer'.State = TimerStopped
      ]_vars

\* an Update step that completes a focus interval and starts the short break
C12_Witness ==
    /\ timer.Mode = FocusMode
    /\ Due
    /\ timer.Settings.AutoStartBreaks
    /\ ENABLED ( /\ Update
                 /\ ret' = <<TRUE>>
                 /\ timer'.State = TimerRunning
                 /\ timer'.Mode = ShortBreakMode
                 /\ timer'.StartTime = now
                 /\ timer'.StartTime > timer.StartTime
                 /\ timer'.Remaining = GetShortBreakDuration(timer.Settings) )

\* C13: completedPomodoros counts the focus intervals of the current
\* long-break cycle and wraps at pomodorosPerCycle: it never exceeds
\* pomodorosPerCycle.
C13_CountWithinCycle ==
    timer.CompletedPomodoros <= timer.PomodorosPerCycle

\* comparisons of two fractions with positive denominators
FracLE(a, b) == a.num * b.den <= b.num * a.den
FracEq(a, b) == a.num * b.den = b.num * a.den
Percent(n) == [num |-> n, den |-> 1]

\* C14: ProgressPercentage() is in [0, 100] in every reachable state, and is 0
\* whenever duration <= 0.
C14_ProgressInRange ==
    LET p == ProgressPercentage(timer)
    IN /\ FracLE(Percent(0), p)
       /\ FracLE(p, Percent(100))
       /\ timer.Duration <= 0 => FracEq(p, Percent(0))

\* an Update call that follows a fresh Start or another Update of the same
\* Running interval, nothing but the passing of time in between
UpdateOfInterval ==
    /\ Update
    /\ timer.State = TimerRunning
    /\ \/ ret = <<FALSE>>
       \/ ret = << >> /\ timer.Remaining = timer.Duration /\ Elapsed >= 0

\* C15 as stated: over one Running interval the value of ProgressPercentage()
\* after successive Update calls does not decrease, and it is exactly 100 after
\* the Update call that returns true.
C15_Original ==
    [][ UpdateOfInterval =>
            /\ FracLE(ProgressPercentage(timer), ProgressPercentage(timer'))
            /\ ret' = <<TRUE>> => FracEq(ProgressPercentage(timer'), Percent(100))
      ]_vars

\* C15: over one Running interval the value of ProgressPercentage() after
\* successive Update calls that return false does not decrease and stays below
\* 100; the Update call that returns true arms the next interval, after it
\* ProgressPercentage() is 0.
C15_ProgressMonotone ==
    [][ UpdateOfInterval =>
            /\ ret' = <<FALSE>> =>
                  /\ FracLE(ProgressPercentage(timer), ProgressPercentage(timer'))
                  /\ ~FracLE(Percent(100), ProgressPercentage(timer'))
            /\ ret' = <<TRUE>> => FracEq(ProgressPercentage(timer'), Percent(0))
      ]_vars

\* an Update step of a Running interval that raises the progress, and the
\* Update step that completes an interval whose progress was above 0
C15_Witness ==
    /\ timer.State = TimerRunning
    /\ ret = <<FALSE>>
    /\ ~FracLE(ProgressPercentage(timer), Percent(0))
    /\ ENABLED ( /\ Update
                 /\ ret' = <<TRUE>>
                 /\ FracEq(ProgressPercentage(timer'), Percent(0)) )

\* the call changes no field of the timer and reaches no task
NoOp == timer' = timer /\ NoReport

\* C16: Pause when state # Running, Resume when state # Paused, SkipBreak in
\* Focus mode and Update when state # Running leave every field of the timer
\* unchanged and make no Task Store call, and that Update returns false.
C16_InvalidCalls ==
    [][ /\ (Pause /\ timer.State # TimerRunning) => NoOp
        /\ (Resume /\ timer.State # TimerPaused) => NoOp
        /\ (SkipBreak /\ timer.Mode = FocusMode) => NoOp
        /\ (Update /\ timer.State # TimerRunning) => NoOp /\ ret' = <<FALSE>>
      ]_vars

\* Update has returned false on a Paused interval of which a part is left,
\* and Pause, Resume and SkipBreak steps that change nothing exist
C16_Witness ==
    /\ ret = <<FALSE>>
    /\ timer.State = TimerPaused
    /\ timer.Mode = FocusMode
    /\ 0 < timer.Remaining /\ timer.Remaining < timer.Duration
    /\ ENABLED (Pause /\ timer' = timer)
    /\ ENABLED (SkipBreak /\ timer' = timer)
    /\ ENABLED (Update /\ timer' = timer /\ ret' = <<FALSE>>)

\* C17: Reset from any state sets state = Stopped and remaining = duration =
\* the configured length of the current mode, leaves mode, completedPomodoros
\* and the current task unchanged and never reports to the Task Store, also
\* when half or more of a Focus interval has elapsed.
C17_Reset ==
    [][ Reset =>
            /\ timer'.State = TimerStopped
            /\ timer'.Duration = ConfiguredLength(timer)
            /\ timer'.Remaining = timer'.Duration
            /\ timer'.Mode = timer.Mode
            /\ timer'.CompletedPomodoros = timer.CompletedPomodoros
            /\ timer'.CurrentTaskID = timer.CurrentTaskID
            /\ timer'.Settings = timer.Settings
            /\ NoReport
      ]_vars

\* a Reset step on a Running focus interval with a task selected, of which
\* more than half and less than all has elapsed since the last Update
C17_Witness ==
    /\ timer.State = TimerRunning
    /\ timer.Mode = FocusMode
    /\ timer.CurrentTaskID # NoTask
    /\ HalfDone(Elapsed, timer.Duration)
    /\ timer.Remaining < timer.Duration
    /\ Elapsed < timer.Duration
    /\ ENABLED ( /\ Reset
                 /\ timer'.State = TimerStopped
                 /\ timer'.Remaining = timer.Duration
                 /\ timer'.CompletedPomodoros = timer.CompletedPomodoros
                 /\ tasks' = tasks )

\* C18: Start on a Paused timer behaves exactly like Resume (each such step
\* of one is a step of the other): state becomes Running, duration and
\* remaining are not re-armed, and the countdown goes on from the remaining
\* time stored at Pause.
C18_StartResumes ==
    [][ /\ (Start /\ timer.State = TimerPaused) => Resume
        /\ (Resume /\ timer.State = TimerPaused) => Start
        /\ (Start /\ timer.State = TimerPaused) =>
              /\ timer'.State = TimerRunning
              /\ timer'.Duration = timer.Duration
              /\ timer'.Remaining = timer.Remaining
              /\ timer'.Duration - Since(timer'.StartTime, now) = timer.Remaining
      ]_vars

\* a Start step on a focus interval that was Paused part-way and has stayed
\* Paused for some time
C18_Witness ==
    /\ timer.State = TimerPaused
    /\ 0 < timer.Remaining /\ timer.Remaining < timer.Duration
    /\ timer.Duration = ConfiguredLength(timer)
    /\ Elapsed > timer.Duration - timer.Remaining
    /\ ENABLED ( /\ Start
                 /\ timer'.State = TimerRunning
                 /\ timer'.Remaining = timer.Remaining
                 /\ timer'.StartTime > timer.StartTime
                 /\ resumedAt' = now )

C21_StoppedIsArmed ==
    timer.State = TimerStopped => timer.Remaining = timer.Duration

\* a break armed by a natural completion that did not auto-start
C21_Witness ==
    /\ ret = <<TRUE>>
    /\ timer.State = TimerStopped
    /\ timer.Mode \in Breaks
    /\ timer.Remaining = timer.Duration
    /\ timer.Duration = ConfiguredLength(timer)

\* C22: after any sequence of Settings Store operations (the three setters
\* with any integer argument, and loading settings from storage) each of the
\* three configured durations is at least 1 minute.
C22_DurationsAtLeastOne ==
    /\ settings.PomodoroDuration >= 1
    /\ settings.ShortBreakDuration >= 1
    /\ settings.LongBreakDuration >= 1

\* C23: reporting a completed pomodoro for an existing task adds exactly 1 to
\* that task's completed-pomodoro count and marks it completed exactly when
\* the new count has reached its planned count; below the planned count the
\* report does not mark it completed, and no other task is modified.
C23_ReportPomodoro ==
    [][ TaskAddCompletedPomodoro =>
          LET id == calls'[1][2]
              i == IndexOf(tasks, id)
          IN \A k \in 1..Len(tasks) :
               IF k = i
               THEN /\ tasks'[k].CompletedPomodoros = tasks[k].CompletedPomodoros + 1
                    /\ tasks'[k].Completed =
                         IF tasks'[k].CompletedPomodoros >= tasks[k].PlannedPomodoros
                         THEN TRUE ELSE tasks[k].Completed
                    /\ tasks'[k].ID = tasks[k].ID
                    /\ tasks'[k].PlannedPomodoros = tasks[k].PlannedPomodoros
                    /\ tasks'[k].TimeSpent = tasks[k].TimeSpent
               ELSE tasks'[k] = tasks[k]
      ]_vars

\* a report that brings the task planned for two pomodoros from 1 to 2 and
\* completes it, made after a report that left it open
C23_Witness ==
    /\ TaskOf(tasks, "t2").CompletedPomodoros = 1
    /\ ~TaskOf(tasks, "t2").Completed
    /\ calls = << <<"AddCompletedPomodoro", "t2">> >>
    /\ ENABLED ( /\ TaskAddCompletedPomodoro
                 /\ calls'[1][2] = "t2"
                 /\ TaskOf(tasks', "t2").CompletedPomodoros = 2
                 /\ TaskOf(tasks', "t2").Completed
                 /\ TaskOf(tasks', "t1") = TaskOf(tasks, "t1") )

\* C24: a newly constructed timer has state = Stopped, mode = Focus,
\* duration = remaining = the configured focus length, completedPomodoros = 0,
\* pomodorosPerCycle = 4 and no current task.
C24_NewTimer ==
    TimerInit =>
        /\ timer.State = TimerStopped
        /\ timer.Mode = FocusMode
        /\ timer.Duration = Minute * timer.Settings.PomodoroDuration
        /\ timer.Remaining = timer.Duration
        /\ timer.CompletedPomodoros = 0
        /\ timer.PomodorosPerCycle = 4
        /\ timer.CurrentTaskID = NoTask

\* the timer right after construction, armed with the default 25 minutes
C24_Witness ==
    /\ TimerInit
    /\ timer.Settings = DefaultSettings
    /\ timer.Remaining = Minute * 25

\* C25: SetCurrentTask changes only the current-task reference (state, mode,
\* remaining, duration, startTime, completedPomodoros and every task record
\* are unchanged), and the credit of a completion or Stop goes to the task
\* selected at that moment.
C25_SetCurrentTask ==
    [][ /\ SetCurrentTask =>
            /\ \E id \in TaskIDs \cup {NoTask} :
                   timer' = [timer EXCEPT !.CurrentTaskID = id]
            /\ timer'.State = timer.State
            /\ timer'.Mode = timer.Mode
            /\ timer'.Remaining = timer.Remaining
            /\ timer'.Duration = timer.Duration
            /\ timer'.StartTime = timer.StartTime
            /\ timer'.CompletedPomodoros = timer.CompletedPomodoros
            /\ NoReport
        /\ ((Stop \/ Update) /\ tasks' # tasks) =>
            /\ timer.CurrentTaskID # NoTask
            /\ TaskOf(tasks', timer.CurrentTaskID).CompletedPomodoros =
                   TaskOf(tasks, timer.CurrentTaskID).CompletedPomodoros + 1
            /\ \A id \in TaskIDs \ {timer.CurrentTaskID} :
                   TaskOf(tasks', id) = TaskOf(tasks, id)
      ]_vars

\* a SetCurrentTask step that moves a Running focus interval, due for
\* completion, from task t1 to task t2
C25_Witness ==
    /\ timer.CurrentTaskID = "t1"
    /\ timer.Mode = FocusMode
    /\ Due
    /\ tasks = LoadedTasks
    /\ ENABLED ( /\ SetCurrentTask
                 /\ timer'.CurrentTaskID = "t2"
                 /\ timer'.StartTime = timer.StartTime
                 /\ timer'.State = TimerRunning
                 /\ tasks' = tasks )

\* reading a text of decimal digits as a number
DigitValue(c) == CHOOSE d \in 0..9 : DigitChars[d + 1] = c
IsDigits(txt) == \A i \in 1..Len(txt) : \E d \in 0..9 : DigitChars[d + 1] = txt[i]
RECURSIVE Atoi(_)
Atoi(txt) ==
    IF txt = << >> THEN 0
    ELSE 10 * Atoi(SubSeq(txt, 1, Len(txt) - 1)) + DigitValue(txt[Len(txt)])

\* C26: FormatTime renders remaining as mm:ss, mm the whole minutes of
\* remaining in at least two digits, ss the whole seconds of remaining modulo
\* 60 in two digits; 25 minutes gives 25:00 and 299 seconds gives 04:59.
C26_FormatTime ==
    formatted # << >> =>
        LET n == Len(formatted)
            mm == SubSeq(formatted, 1, n - 3)
            ss == SubSeq(formatted, n - 1, n)
            wholeSeconds == formatArg \div TicksPerSecond
        IN /\ n >= 5
           /\ formatted[n - 2] = ":"
           /\ IsDigits(mm) /\ IsDigits(ss)
           /\ Atoi(mm) = wholeSeconds \div 60
           /\ Atoi(ss) = wholeSeconds % 60
           /\ Len(mm) = 2 \/ mm[1] # "0"
           /\ wholeSeconds = 25 * 60 => formatted = <<"2", "5", ":", "0", "0">>
           /\ wholeSeconds = 299 => formatted = <<"0", "4", ":", "5", "9">>

\* the text returned for a remaining time of 299 seconds and a fraction
C26_Witness ==
    /\ formatArg = 299 * TicksPerSecond + 1
    /\ formatted = <<"0", "4", ":", "5", "9">>

\* C27: Start on a Running timer is a no-op: startTime, remaining and the
\* elapsed progress of the interval in flight are unchanged.
C27_StartWhileRunning ==
    [][ (Start /\ timer.State = TimerRunning) =>
            /\ timer'.StartTime = timer.StartTime
            /\ timer'.Remaining = timer.Remaining
            /\ timer' = timer
      ]_vars

\* C28: whenever completedPomodoros reaches a positive multiple of
\* pomodorosPerCycle, by a natural completion or by a partial-credit Stop, the
\* next break entered is a LongBreak; equivalently, no more than
\* pomodorosPerCycle pomodoros are credited between two consecutive long
\* breaks.
C28_LongBreakEveryCycle ==
    [][ ( /\ timer.Mode = FocusMode
          /\ timer'.Mode \in Breaks
          /\ cycle >= timer.PomodorosPerCycle ) =>
            /\ timer'.Mode = LongBreakMode
            /\ cycle <= timer.PomodorosPerCycle
      ]_vars

\* C29: Task Store reports are made only when a task is selected and a Focus
\* interval completes naturally or is stopped while Running with at least 50%
\* elapsed; completing, stopping, skipping or resetting a break, and Pause,
\* Resume, Reset, Start and SetSettings in any mode change no task record.
C29_ReportsOnlyForFocus ==
    [][ /\ (tasks' # tasks \/ (~Tick /\ calls' # << >>)) =>
            /\ timer.CurrentTaskID # NoTask
            /\ timer.Mode = FocusMode
            /\ timer.State = TimerRunning
            /\ \/ Update /\ ret' = <<TRUE>> /\ Elapsed >= timer.Duration
               \/ Stop /\ 2 * Elapsed >= timer.Duration
        /\ (Pause \/ Resume \/ Reset \/ Start \/ SetSettings) => NoReport
        /\ ( /\ timer.Mode \in Breaks
             /\ Update \/ Stop \/ SkipBreak \/ Reset ) => NoReport
      ]_vars

\* a Running break with a task selected that is due for completion: steps
\* that complete, stop and skip it exist and change no task
C29_Witness ==
    /\ timer.Mode \in Breaks
    /\ timer.CurrentTaskID # NoTask
    /\ Due
    /\ ENABLED (Update /\ ret' = <<TRUE>> /\ tasks' = tasks /\ calls' = << >>)
    /\ ENABLED (Stop /\ timer'.State = TimerStopped /\ tasks' = tasks)
    /\ ENABLED (SkipBreak /\ timer'.Mode = FocusMode /\ tasks' = tasks)

\* C30: Stop on a Paused timer performs no accounting: completedPomodoros and
\* all task records are unchanged, also when 50% or more of the Focus interval
\* had elapsed before the pause; state becomes Stopped and remaining is
\* re-armed to duration.
C30_StopWhilePaused ==
    [][ (Stop /\ timer.State = TimerPaused) =>
            /\ timer'.CompletedPomodoros = timer.CompletedPomodoros
            /\ NoReport
            /\ timer'.State = TimerStopped
            /\ timer'.Duration = ConfiguredLength(timer)
            /\ timer'.Remaining = timer'.Duration
            /\ timer'.Mode = timer.Mode
      ]_vars

\* a Stop step on a focus interval with a task selected that was Paused
\* after more than half of it had elapsed
C30_Witness ==
    /\ timer.State = TimerPaused
    /\ timer.Mode = FocusMode
    /\ timer.CurrentTaskID # NoTask
    /\ timer.Duration = ConfiguredLength(timer)
    /\ 2 * (timer.Duration - timer.Remaining) >= timer.Duration
    /\ timer.Remaining > 0
    /\ ENABLED ( /\ Stop
                 /\ timer'.State = TimerStopped
                 /\ timer'.Remaining = timer.Duration
                 /\ timer'.CompletedPomodoros = timer.CompletedPomodoros
                 /\ tasks' = tasks )

\* C31: completedPomodoros never decreases and changes only by exactly +1,
\* and only in an Update() that completes a Focus interval or a Stop() of a
\* Running Focus interval with at least 50% elapsed; the step that counts ends
\* the interval, so a started Focus interval is counted at most once.
\* Completion or stop of a break, Reset, Pause, Resume, Start, SkipBreak,
\* SetSettings and SetCurrentTask leave it unchanged.
C31_CountChanges ==
    [][ /\ timer'.CompletedPomodoros # timer.CompletedPomodoros =>
            /\ timer'.CompletedPomodoros = timer.CompletedPomodoros + 1
            /\ timer.Mode = FocusMode
            /\ timer.State = TimerRunning
            /\ \/ Update /\ ret' = <<TRUE>> /\ Elapsed >= timer.Duration
               \/ Stop /\ 2 * Elapsed >= timer.Duration
            /\ ~(timer'.State = TimerRunning /\ timer'.Mode = FocusMode)
        /\ (timer.Mode \in Breaks /\ (Update \/ Stop)) =>
            timer'.CompletedPomodoros = timer.CompletedPomodoros
        /\ (Reset \/ Pause \/ Resume \/ Start \/ SkipBreak \/ SetSettings
                \/ SetCurrentTask) =>
            timer'.CompletedPomodoros = timer.CompletedPomodoros
      ]_vars

\* a Running focus interval that is over, after one pomodoro was counted
\* already: the completing Update and the Stop each count one more, and the
\* completion of a break that is over counts nothing
C31_Witness ==
    /\ timer.CompletedPomodoros = 1
    /\ Due
    /\ timer.Mode = FocusMode
    /\ ENABLED (Update /\ ret' = <<TRUE>> /\ timer'.CompletedPomodoros = 2)
    /\ ENABLED (Stop /\ timer'.CompletedPomodoros = 2)

\* C32: with no task selected, a natural Focus completion and a Stop() with
\* at least 50% elapsed still count one pomodoro, the completion enters the
\* break the incremented count calls for, and no TaskManager call is made;
\* with a selected ID that no task of the TaskManager has, the count and the
\* break are the same and the two reports change no task.
C32_NoTaskToCredit ==
    [][ ( /\ timer.CurrentTaskID \notin TaskIDs
          /\ timer.Mode = FocusMode
          /\ timer.State = TimerRunning ) =>
            /\ (Update /\ Elapsed >= timer.Duration) =>
                  /\ ret' = <<TRUE>>
                  /\ timer'.CompletedPomodoros = timer.CompletedPomodoros + 1
                  /\ timer'.Mode =
                        IF timer'.CompletedPomodoros % timer.PomodorosPerCycle = 0
                        THEN LongBreakMode ELSE ShortBreakMode
                  /\ timer'.Remaining = ConfiguredLength(timer')
                  /\ tasks' = tasks
                  /\ timer.CurrentTaskID = NoTask => calls' = << >>
            /\ (Stop /\ 2 * Elapsed >= timer.Duration) =>
                  /\ timer'.CompletedPomodoros = timer.CompletedPomodoros + 1
                  /\ timer'.State = TimerStopped
                  /\ timer'.Mode = FocusMode
                  /\ tasks' = tasks
                  /\ timer.CurrentTaskID = NoTask => calls' = << >>
      ]_vars

\* a Running focus interval that is over while the selected ID is the ID of
\* no task: the completing Update and the Stop count the pomodoro and make
\* their two reports, and no task changes
C32_Witness ==
    /\ timer.CurrentTaskID \notin TaskIDs \cup {NoTask}
    /\ timer.Mode = FocusMode
    /\ Due
    /\ ENABLED ( /\ Update
                 /\ ret' = <<TRUE>>
                 /\ timer'.CompletedPomodoros = timer.CompletedPomodoros + 1
                 /\ timer'.Mode = ShortBreakMode
                 /\ Len(calls') = 2
                 /\ tasks' = tasks )
    /\ ENABLED ( /\ Stop
                 /\ timer'.CompletedPomodoros = timer.CompletedPomodoros + 1
                 /\ Len(calls') = 2
                 /\ tasks' = tasks )

\* C33: a Running timer that is left to the clock and to the Update() calls
\* of the tick messages, with no control operation, eventually has Update()
\* return true and eventually rests in state Stopped; with autoStartBreaks a
\* Focus interval is followed by exactly one break and the timer then rests
\* Stopped in Focus mode: a break is entered only from Focus, what follows a
\* break is Focus and Stopped, and only the interval the timer was started
\* with (startTime 0) is counted.
C33_ComesToRest ==
    /\ <>(ret = <<TRUE>>)
    /\ <>[]( /\ timer.State = TimerStopped
             /\ timer.Settings.AutoStartBreaks => timer.Mode = FocusMode )
    /\ [][ /\ timer'.Mode # timer.Mode =>
                /\ (timer.Mode = FocusMode) = (timer'.Mode \in Breaks)
                /\ timer'.Mode = FocusMode => timer'.State = TimerStopped
           /\ timer'.CompletedPomodoros # timer.CompletedPomodoros =>
                /\ timer.StartTime = 0
                /\ timer'.CompletedPomodoros = timer.CompletedPomodoros + 1
         ]_vars

\* the timer at rest in Focus mode after a focus interval credited to a task
\* and the break started by autoStartBreaks
C33_Witness ==
    /\ timer.State = TimerStopped
    /\ timer.Mode = FocusMode
    /\ timer.Settings.AutoStartBreaks
    /\ timer.CurrentTaskID # NoTask
    /\ TaskOf(tasks, timer.CurrentTaskID).CompletedPomodoros = 1
    /\ ret = <<TRUE>>
    /\ now >= GetPomodoroDuration(timer.Settings)
                + GetShortBreakDuration(timer.Settings)

\* C34: auto-start applies only to breaks: an Update() that completes a
\* ShortBreak or LongBreak leaves the timer in Focus mode, Stopped, with
\* remaining equal to the configured focus length, whatever autoStartBreaks
\* is; and a step after which a Focus interval is Running that was not
\* Running before is a Start() or a Resume().
C34_FocusNeverAutoStarts ==
    [][ /\ (timer.Mode \in Breaks /\ Update /\ ret' = <<TRUE>>) =>
            /\ timer'.Mode = FocusMode
            /\ timer'.State = TimerStopped
            /\ timer'.Remaining = GetPomodoroDuration(timer.Settings)
            /\ timer'.Duration = timer'.Remaining
        /\ ( /\ timer'.State = TimerRunning
             /\ timer'.Mode = FocusMode
             /\ ~(timer.State = TimerRunning /\ timer.Mode = FocusMode) ) =>
            (Start \/ Resume)
      ]_vars

\* a Running break that is over, with autoStartBreaks set: the completing
\* Update leaves the timer Stopped in Focus
C34_Witness ==
    /\ timer.Mode \in Breaks
    /\ timer.Settings.AutoStartBreaks
    /\ Due
    /\ ENABLED ( /\ Update
                 /\ ret' = <<TRUE>>
                 /\ timer'.Mode = FocusMode
                 /\ timer'.State = TimerStopped
                 /\ timer'.Remaining = GetPomodoroDuration(timer.Settings) )

\* C35: when a duration is changed through the SettingsManager while the
\* timer is Running or Paused, the registered change handler leaves the
\* interval in flight untouched: state, remaining, duration and start time
\* (the elapsed progress) are unchanged.
C35_ChangeKeepsInterval ==
    [][ ( /\ timer.State \in {TimerRunning, TimerPaused}
          /\ \/ AppSetPomodoroDuration
             \/ AppSetShortBreakDuration
             \/ AppSetLongBreakDuration ) =>
            /\ timer'.State = timer.State
            /\ timer'.Remaining = timer.Remaining
            /\ timer'.Duration = timer.Duration
            /\ timer'.StartTime = timer.StartTime
      ]_vars

\* C36: for the timer that holds its task by value, the pomodoro and the time
\* credited at a natural Focus completion are reflected in the TaskManager's
\* record of that task: after the completion the TaskManager's task has one
\* more completed pomodoro and the interval duration more time spent.
C36_CreditReachesTaskManager ==
    [][ ( /\ timer.Mode = FocusMode
          /\ timer.CurrentTask # << >>
          /\ ValueUpdate
          /\ ret' = <<TRUE>> ) =>
            LET id == timer.CurrentTask[1].ID IN
            /\ TaskOf(tasks', id).CompletedPomodoros =
                  TaskOf(tasks, id).CompletedPomodoros + 1
            /\ TaskOf(tasks', id).TimeSpent =
                  TaskOf(tasks, id).TimeSpent + timer.Duration
      ]_vars

\* C37: the time reported to the TaskManager for a Focus interval never
\* exceeds the interval's duration: a natural completion reports exactly the
\* duration, and a partial-credit Stop() reports an elapsed time that is at
\* least half of the duration and at most the duration.
C37_ReportedTimeBounded ==
    [][ ( /\ timer.State = TimerRunning
          /\ timer.Mode = FocusMode
          /\ timer.CurrentTaskID # NoTask
          /\ Update \/ Stop
          /\ calls' # << >> ) =>
            LET reported == calls'[2][3] IN
            /\ calls'[2][1] = "AddTimeSpent"
            /\ reported <= timer.Duration
            /\ Update => reported = timer.Duration
            /\ Stop => 2 * reported >= timer.Duration
      ]_vars

\* C38: elapsed time beyond the duration is clamped: Pause() on a Running
\* interval with elapsed > duration stores remaining = 0 and makes the state
\* Paused; a Resume() (or Start()) of a Paused interval with remaining 0
\* leaves it Running and over, and the Update() that follows the resume
\* completes it, returns true and, in Focus mode, counts the pomodoro and
\* credits the selected task with the duration.
C38_OverrunIsClamped ==
    [][ /\ (timer.State = TimerRunning /\ Elapsed > timer.Duration /\ Pause) =>
            /\ timer'.Remaining = 0
            /\ timer'.State = TimerPaused
        /\ (timer.State = TimerPaused /\ timer.Remaining = 0 /\ Resumes) =>
            /\ timer'.State = TimerRunning
            /\ timer'.Remaining = 0
            /\ now - timer'.StartTime >= timer'.Duration
        /\ ( /\ resumedAt # -1
             /\ timer.State = TimerRunning
             /\ timer.Remaining = 0
             /\ Update ) =>
            /\ ret' = <<TRUE>>
            /\ timer.Mode = FocusMode =>
                  /\ timer'.CompletedPomodoros = timer.CompletedPomodoros + 1
                  /\ IF timer.CurrentTaskID # NoTask
                     THEN CreditedOnce(timer.CurrentTaskID, timer.Duration)
                     ELSE NoReport
      ]_vars

\* a Running focus interval with a task selected that has been over for a
\* while: Pause stores remaining 0
C38_Witness ==
    /\ timer.State = TimerRunning
    /\ timer.Mode = FocusMode
    /\ timer.CurrentTaskID # NoTask
    /\ Elapsed > timer.Duration
    /\ ENABLED (Pause /\ timer'.State = TimerPaused /\ timer'.Remaining = 0)

\* the file can be read: there is none yet, or it holds a JSON document
Readable(f) == f.kind # "unreadable"

\* C39: in the JSON storage tasks and settings are persisted independently in
\* one file: on a readable file Save(tasks) leaves the stored settings
\* unchanged and SaveSettings(settings) leaves the stored tasks unchanged, so
\* that Load() returns the tasks last saved and LoadSettings() the settings
\* last saved (for settings with every duration >= 1); Save(nil) returns an
\* error and leaves the file unchanged.
C39_IndependentPersistence ==
    [][ /\ (Readable(file) /\ SaveTasks) =>
            /\ ret' = <<FALSE>>
            /\ JSONLoad(file') = tasks
            /\ JSONLoadSettings(file') = JSONLoadSettings(file)
            /\ file'.data.settings =
                  IF file.kind = "json" THEN file.data.settings
                  ELSE MarshalSettings(DefaultSettings)
        /\ (Readable(file) /\ SaveSettings) =>
            /\ JSONLoad(file') = JSONLoad(file)
            /\ ( /\ settings.PomodoroDuration >= 1
                 /\ settings.ShortBreakDuration >= 1
                 /\ settings.LongBreakDuration >= 1 ) =>
                  JSONLoadSettings(file') = settings
        /\ SaveNil => (ret' = <<TRUE>> /\ file' = file)
        /\ LoadTasks => (tasks' = JSONLoad(file) /\ file' = file)
        /\ LoadSettings => (settings' = JSONLoadSettings(file) /\ file' = file)
      ]_vars

\* a file with tasks and settings of an earlier run, while the TaskManager's
\* tasks and the settings have changed since: saving the tasks stores them and
\* keeps the settings of the file, saving the settings stores them and keeps
\* the tasks of the file
C39_Witness ==
    /\ file.kind = "json"
    /\ JSONLoad(file) # << >>
    /\ JSONLoad(file) # tasks
    /\ JSONLoadSettings(file) # DefaultSettings
    /\ JSONLoadSettings(file) # settings
    /\ settings # DefaultSettings
    /\ ENABLED ( /\ SaveTasks
                 /\ JSONLoad(file') = tasks
                 /\ JSONLoadSettings(file') = JSONLoadSettings(file) )
    /\ ENABLED ( /\ SaveSettings
                 /\ JSONLoadSettings(file') = settings
                 /\ JSONLoad(file') = JSONLoad(file) )
====
